---------------------------- MODULE Spec2Model ----------------------------
(***************************************************************************)
(* Model of the KSUID compressed-set codec (src/src/compressed-set.ts)     *)
(* together with the pieces it calls: Uint128 (uint128.ts), KSUID          *)
(* (ksuid.ts), Base62.encode (base62.ts) and sort/isSorted (sort.ts).      *)
(*                                                                         *)
(* Representation.  A Buffer is a sequence of bytes (0..255).  A JS BigInt *)
(* or an unsigned Number that may exceed 2^31 is a big-endian sequence of  *)
(* bytes holding the exact integer (TLC integers are 32 bits wide, the     *)
(* program's are 32, 64 and 128 bits wide and the widths matter).  Small   *)
(* Numbers (indexes, lengths, counts, offsets) are TLC integers.  A thrown *)
(* error is the record [err |-> code].                                     *)
(***************************************************************************)
EXTENDS Integers, Sequences, FiniteSets, TLC

-----------------------------------------------------------------------------
(* Host arithmetic on big-endian byte sequences (exact integer arithmetic). *)

Byte == 0..255

Zeros(n) == [i \in 1..n |-> 0]

Ones(n) == [i \in 1..n |-> 255]

\* Buffer.subarray(start, end): clamps both ends to the buffer, never throws.
subarray(buf, start, end) ==
  LET s == IF start > Len(buf) THEN Len(buf) ELSE start
      e == IF end > Len(buf) THEN Len(buf) ELSE end
  IN  IF e <= s THEN <<>> ELSE [i \in 1..(e - s) |-> buf[s + i]]

\* The last n bytes of a byte sequence (x & (2^(8n) - 1) on an exact integer).
LowBytes(x, n) == [i \in 1..n |-> x[Len(x) - n + i]]

IsZeroBytes(x) == \A i \in 1..Len(x) : x[i] = 0

RECURSIVE AddAt(_, _, _, _, _)
AddAt(a, b, i, c, acc) ==
  IF i = 0 THEN <<c>> \o acc
  ELSE LET s == a[i] + b[i] + c
       IN  AddAt(a, b, i - 1, s \div 256, <<s % 256>> \o acc)

\* a + b + cin for two n-byte values: the exact sum, n+1 bytes.
BigAdd(a, b, cin) == AddAt(a, b, Len(a), cin, <<>>)

RECURSIVE SubAt(_, _, _, _, _)
SubAt(a, b, i, c, acc) ==
  IF i = 0 THEN [borrow |-> c, bytes |-> acc]
  ELSE LET s == a[i] - b[i] - c
       IN  IF s < 0 THEN SubAt(a, b, i - 1, 1, <<s + 256>> \o acc)
                    ELSE SubAt(a, b, i - 1, 0, <<s>> \o acc)

\* a - b - bin for two n-byte values: the exact difference is
\* bytes - borrow * 256^n (borrow = 1 exactly when it is negative).
BigSub(a, b, bin) == SubAt(a, b, Len(a), bin, <<>>)

RECURSIVE CmpAt(_, _, _)
CmpAt(a, b, i) ==
  IF i > Len(a) /\ i > Len(b) THEN 0
  ELSE IF i > Len(a) THEN -1
  ELSE IF i > Len(b) THEN 1
  ELSE IF a[i] < b[i] THEN -1
  ELSE IF a[i] > b[i] THEN 1
  ELSE CmpAt(a, b, i + 1)

\* Buffer.compare: unsigned byte-lexicographic three-way comparison.
BufferCompare(a, b) == CmpAt(a, b, 1)

RECURSIVE NatOfAt(_, _, _)
NatOfAt(x, i, acc) ==
  IF i > Len(x) THEN acc ELSE NatOfAt(x, i + 1, acc * 256 + x[i])

\* A byte sequence as a small Number (only for values below 2^31).
NatOf(x) == NatOfAt(x, 1, 0)

RECURSIVE BytesOfAt(_, _, _)
BytesOfAt(v, n, acc) ==
  IF n = 0 THEN acc ELSE BytesOfAt(v \div 256, n - 1, <<v % 256>> \o acc)

\* A small Number as n big-endian bytes.
BytesOf(v, n) == BytesOfAt(v, n, <<>>)

RECURSIVE BitAnd(_, _)
BitAnd(x, y) ==
  IF x = 0 \/ y = 0 THEN 0
  ELSE 2 * BitAnd(x \div 2, y \div 2) + ((x % 2) * (y % 2))

\* x & y on two 32-bit patterns (the operands after JS ToInt32).
And32(x, y) == [i \in 1..4 |-> BitAnd(x[i], y[i])]

\* for (k = lo; k < hi; k++) st = Body(k, st).  The iterations run in order;
\* the range is evaluated in halves, each half's state computed before the
\* next half starts, which keeps the evaluation shallow.
RECURSIVE ForLoop(_, _, _, _)
ForLoop(Body(_, _), lo, hi, st) ==
  IF lo >= hi THEN st
  ELSE IF hi = lo + 1 THEN Body(lo, st)
  ELSE LET mid == (lo + hi) \div 2
           st1 == ForLoop(Body, lo, mid, st)
       IN  IF st1 = st1 THEN ForLoop(Body, mid, hi, st1) ELSE st

-----------------------------------------------------------------------------
(* errors.ts *)

\* A call that can throw yields Ok(value) or Err(code).
Ok(v) == [ok |-> TRUE, val |-> v]

Err(code) == [ok |-> FALSE, err |-> code]

invalidBufferLength == Err("INVALID_BUFFER_SIZE")

malformedData == Err("MALFORMED_DATA")

\* Node's RangeError [ERR_OUT_OF_RANGE], thrown by Buffer.copy for a negative
\* targetStart and by writeUInt32BE for a value above 2^32 - 1.
RangeError == Err("ERR_OUT_OF_RANGE")

-----------------------------------------------------------------------------
(* base62.ts *)

BASE62_ALPHABET ==
  << "0","1","2","3","4","5","6","7","8","9",
     "A","B","C","D","E","F","G","H","I","J","K","L","M",
     "N","O","P","Q","R","S","T","U","V","W","X","Y","Z",
     "a","b","c","d","e","f","g","h","i","j","k","l","m",
     "n","o","p","q","r","s","t","u","v","w","x","y","z" >>

BASE == 62

ENCODED_STRING_LENGTH == 27

\* BigInt("0x" + buffer.toString("hex")): the integer, without leading zero
\* bytes (zero is the empty sequence).
RECURSIVE BigIntOf(_)
BigIntOf(buffer) ==
  IF buffer = <<>> THEN <<>>
  ELSE IF buffer[1] # 0 THEN buffer
  ELSE BigIntOf(Tail(buffer))

RECURSIVE DivModAt(_, _, _, _)
DivModAt(num, i, r, q) ==
  IF i > Len(num) THEN [quot |-> q, rem |-> r]
  ELSE LET cur == r * 256 + num[i]
           d   == cur \div BASE
       IN  DivModAt(num, i + 1, cur % BASE,
                    IF q = <<>> /\ d = 0 THEN q ELSE Append(q, d))

\* num / BASE and num % BASE of a BigInt.
DivModBase(num) == DivModAt(num, 1, 0, <<>>)

\* while (num > 0n) { remainder = num % BASE; num = num / BASE; ... }
RECURSIVE EncodeLoop(_, _)
EncodeLoop(num, encoded) ==
  IF num = <<>> THEN encoded
  ELSE LET d == DivModBase(num)
       IN  EncodeLoop(d.quot, <<BASE62_ALPHABET[d.rem + 1]>> \o encoded)

padStart(s, n, c) ==
  IF Len(s) >= n THEN s ELSE [i \in 1..(n - Len(s)) |-> c] \o s

\* Base62.encode of a 20-byte buffer (a KSUID's buffer): the 27-character
\* string, as a sequence of characters.
Base62_encode(buffer) ==
  LET num == BigIntOf(buffer)
  IN  IF num = <<>> THEN [i \in 1..ENCODED_STRING_LENGTH |-> "0"]
      ELSE padStart(EncodeLoop(num, <<>>), ENCODED_STRING_LENGTH, "0")

-----------------------------------------------------------------------------
(* JS Numbers that hold a timestamp: exact integers below 2^53, kept as    *)
(* NUM_BYTES big-endian bytes (2^53 < 256^7).                              *)

NUM_BYTES == 7

\* buf.readUInt32BE(offset) as a Number.
readUInt32BE(buf, offset) == Zeros(NUM_BYTES - 4) \o subarray(buf, offset, offset + 4)

\* buf.writeUInt32BE(v): the four bytes written, or the RangeError Node throws
\* when v is above 2^32 - 1.
writeUInt32BE(v) ==
  IF IsZeroBytes(subarray(v, 0, NUM_BYTES - 4)) THEN Ok(LowBytes(v, 4)) ELSE RangeError

-----------------------------------------------------------------------------
(* uint128.ts *)

\* constructor(low, high): both halves masked with U64_MAX.
Uint128(low, high) == [low |-> LowBytes(low, 8), high |-> LowBytes(high, 8)]

makeUint128FromPayload(payload) ==
  IF Len(payload) # 16 THEN invalidBufferLength
  ELSE Ok(Uint128(subarray(payload, 8, 16), subarray(payload, 0, 8)))

uint128Payload(buffer) == makeUint128FromPayload(subarray(buffer, 4, 20))

Uint128_zero == Uint128(Zeros(8), Zeros(8))

Uint128_one == Uint128(Zeros(7) \o <<1>>, Zeros(8))

Uint128_max == Uint128(Ones(8), Ones(8))

\* ksuid(timestamp): timestamp(4 BE) || high(8 BE) || low(8 BE).
Uint128_ksuid(u, timestamp) ==
  LET ts == writeUInt32BE(timestamp)
  IN  IF ~ts.ok THEN ts ELSE Ok(ts.val \o u.high \o u.low)

\* bytes() with the low half written first.
Uint128_bytesLowFirst(u) == u.low \o u.high

Uint128_bytes(u) == u.high \o u.low

\* add that drops the carry out of the low half.
Uint128_addNoCarry(u, other) ==
  Uint128(LowBytes(BigAdd(u.low, other.low, 0), 8),
          LowBytes(BigAdd(u.high, other.high, 0), 8))

Uint128_add(u, other) ==
  LET lowSum  == BigAdd(u.low, other.low, 0)
      carry   == IF lowSum[1] # 0 THEN 1 ELSE 0
      newLow  == LowBytes(lowSum, 8)
      newHigh == LowBytes(BigAdd(u.high, other.high, carry), 8)
  IN  Uint128(newLow, newHigh)

\* sub that drops the borrow out of the low half.
Uint128_subNoBorrow(u, other) ==
  Uint128(BigSub(u.low, other.low, 0).bytes, BigSub(u.high, other.high, 0).bytes)

Uint128_sub(u, other) ==
  LET d       == BigSub(u.low, other.low, 0)
      borrow  == d.borrow
      newLow  == d.bytes
      newHigh == BigSub(u.high, other.high, borrow).bytes
  IN  Uint128(newLow, newHigh)

\* incr that drops the carry out of the low half.
Uint128_incrNoCarry(u) ==
  Uint128(LowBytes(BigAdd(u.low, Zeros(7) \o <<1>>, 0), 8), u.high)

Uint128_incr(u) ==
  LET newLow == BigAdd(u.low, Zeros(7) \o <<1>>, 0)
      carry  == IF newLow[1] # 0 THEN 1 ELSE 0
  IN  Uint128(LowBytes(newLow, 8), LowBytes(BigAdd(u.high, Zeros(8), carry), 8))

Uint128_decr(u) ==
  LET d       == BigSub(u.low, Zeros(7) \o <<1>>, 0)
      newHigh == BigSub(u.high, Zeros(8), d.borrow).bytes
  IN  Uint128(d.bytes, newHigh)

\* compare that lets the low half decide first.
Uint128_compareLowFirst(u, other) ==
  IF BufferCompare(u.low, other.low) < 0 THEN -1
  ELSE IF BufferCompare(u.low, other.low) > 0 THEN 1
  ELSE IF BufferCompare(u.high, other.high) < 0 THEN -1
  ELSE IF BufferCompare(u.high, other.high) > 0 THEN 1
  ELSE 0

Uint128_compare(u, other) ==
  IF BufferCompare(u.high, other.high) < 0 THEN -1
  ELSE IF BufferCompare(u.high, other.high) > 0 THEN 1
  ELSE IF BufferCompare(u.low, other.low) < 0 THEN -1
  ELSE IF BufferCompare(u.low, other.low) > 0 THEN 1
  ELSE 0

Uint128_equals(u, other) == u.low = other.low /\ u.high = other.high

Uint128_isZero(u) == IsZeroBytes(u.low) /\ IsZeroBytes(u.high)

-----------------------------------------------------------------------------
(* ksuid.ts: a KSUID is its 20-byte buffer. *)

KSUID_LENGTH == 20

KSUID_fromBytes(buffer) ==
  IF Len(buffer) # KSUID_LENGTH THEN invalidBufferLength ELSE Ok(buffer)

\* KSUID.fromParts(timestamp, payload)
KSUID_fromParts(timestamp, payload) ==
  IF ~IsZeroBytes(subarray(timestamp, 0, NUM_BYTES - 4)) THEN Err("INVALID_TIMESTAMP")
  ELSE IF Len(payload) # 16 THEN invalidBufferLength
  ELSE Ok(writeUInt32BE(timestamp).val \o payload)

KSUID_nil == Zeros(KSUID_LENGTH)

KSUID_timestamp(k) == readUInt32BE(k, 0)

KSUID_payload(k) == subarray(k, 4, KSUID_LENGTH)

KSUID_toString(k) == Base62_encode(k)

KSUID_compare(k, other) == BufferCompare(k, other)

\* KSUID.fromBytes(x) where evaluating x may itself have thrown.
KSUID_fromBytesOf(r) == IF r.ok THEN KSUID_fromBytes(r.val) ELSE r

\* next(): timestamp + 1 is a Number, which ksuid() writes with writeUInt32BE.
KSUID_next(k) ==
  LET timestamp   == KSUID_timestamp(k)
      payload     == uint128Payload(k).val
      nextPayload == Uint128_add(payload, Uint128_one)
  IN  IF Uint128_isZero(nextPayload)
      THEN LET nextTimestamp ==
                 LowBytes(BigAdd(timestamp, Zeros(NUM_BYTES - 1) \o <<1>>, 0),
                          NUM_BYTES)
           IN  KSUID_fromBytesOf(Uint128_ksuid(nextPayload, nextTimestamp))
      ELSE KSUID_fromBytesOf(Uint128_ksuid(nextPayload, timestamp))

\* prev(): timestamp - 1 below 0 is replaced by 0xffffffff.
KSUID_prev(k) ==
  LET timestamp   == KSUID_timestamp(k)
      payload     == uint128Payload(k).val
      prevPayload == Uint128_sub(payload, Uint128_one)
  IN  IF Uint128_equals(prevPayload, Uint128_max)
      THEN LET prevTimestamp == BigSub(timestamp, Zeros(NUM_BYTES - 1) \o <<1>>, 0)
           IN  IF prevTimestamp.borrow # 0
               THEN KSUID_fromBytesOf(
                      Uint128_ksuid(prevPayload, Zeros(NUM_BYTES - 4) \o Ones(4)))
               ELSE KSUID_fromBytesOf(Uint128_ksuid(prevPayload, prevTimestamp.bytes))
      ELSE KSUID_fromBytesOf(Uint128_ksuid(prevPayload, timestamp))

-----------------------------------------------------------------------------
(* sort.ts: arrays are sequences, read with the code's 0-based indexes. *)

At(a, i) == a[i + 1]

\* A swap that only overwrites a[i].
SwapOneWay(a, i, j) == [a EXCEPT ![i + 1] = a[j + 1]]

\* [a[i], a[j]] = [a[j], a[i]]
Swap(a, i, j) == [a EXCEPT ![i + 1] = a[j + 1], ![j + 1] = a[i + 1]]

\* One iteration of isSorted's loop; st.ret is set by the early return.
isSortedStep(ids, i, st) ==
  IF st.ret # "none" THEN st
  ELSE IF KSUID_compare(st.min, At(ids, i)) > 0 THEN [st EXCEPT !.ret = "false"]
  ELSE [st EXCEPT !.min = At(ids, i)]

isSorted(ids) ==
  IF Len(ids) = 0 THEN TRUE
  ELSE ForLoop(LAMBDA i, st : isSortedStep(ids, i, st), 1, Len(ids),
               [min |-> At(ids, 0), ret |-> "none"]).ret = "none"

\* The partition loop of quickSort: for (j = lo; j < hi; j++).
RECURSIVE partitionLoop(_, _, _, _, _)
partitionLoop(a, j, hi, i, pivot) ==
  IF j >= hi THEN [a |-> a, i |-> i]
  ELSE IF KSUID_compare(At(a, j), pivot) < 0
       THEN partitionLoop(Swap(a, i + 1, j), j + 1, hi, i + 1, pivot)
       ELSE partitionLoop(a, j + 1, hi, i, pivot)

RECURSIVE quickSort(_, _, _)
quickSort(a, lo, hi) ==
  IF lo < hi
  THEN LET p  == partitionLoop(a, lo, hi, lo - 1, At(a, hi))
           i  == p.i + 1
           a1 == IF KSUID_compare(At(p.a, hi), At(p.a, i)) < 0
                 THEN Swap(p.a, i, hi) ELSE p.a
           a2 == quickSort(a1, lo, i - 1)
       IN  quickSort(a2, i + 1, hi)
  ELSE a

sort(ids) == IF Len(ids) <= 1 THEN ids ELSE quickSort(ids, 0, Len(ids) - 1)

-----------------------------------------------------------------------------
(* compressed-set.ts: constants and varint utilities *)

RAW_KSUID == 0

TIME_DELTA == 64

PAYLOAD_DELTA == 128

PAYLOAD_RANGE == 192

\* x | y on two small non-negative Numbers.
BitOr(x, y) == x + y - BitAnd(x, y)

\* The Number a 64-bit hexadecimal literal with its top bit set denotes: the
\* nearest double (53-bit significand, so a multiple of 2^11; ties to even),
\* as an exact 9-byte integer.
NumberLiteral64(lit) ==
  LET low11 == (lit[7] % 8) * 256 + lit[8]
      trunc == [lit EXCEPT ![7] = lit[7] - (lit[7] % 8), ![8] = 0]
      odd   == (lit[7] \div 8) % 2 = 1
      up    == low11 > 1024 \/ (low11 = 1024 /\ odd)
  IN  IF up THEN BigAdd(trunc, <<0, 0, 0, 0, 0, 0, 8, 0>>, 0) ELSE <<0>> \o trunc

\* JS ToInt32: the value modulo 2^32, as a 32-bit pattern.
ToInt32(num) == LowBytes(num, 4)

\* The masks of varintLength64 as written in the source, most significant first.
Masks64 ==
  << <<255, 255, 255, 255, 255, 255, 255, 0>>,
     <<255, 255, 255, 255, 255, 255, 0, 0>>,
     <<255, 255, 255, 255, 255, 0, 0, 0>>,
     <<255, 255, 255, 255, 0, 0, 0, 0>>,
     <<255, 255, 255, 0, 0, 0, 0, 0>>,
     <<255, 255, 0, 0, 0, 0, 0, 0>>,
     <<255, 0, 0, 0, 0, 0, 0, 0>> >>

RECURSIVE varintLength64At(_, _)
varintLength64At(v, k) ==
  IF k > Len(Masks64) THEN 8
  ELSE IF IsZeroBytes(And32(ToInt32(v), ToInt32(NumberLiteral64(Masks64[k])))) THEN k
  ELSE varintLength64At(v, k + 1)

\* varintLength64(v: number): the masks are Number literals and & works on
\* the ToInt32 of both operands.  v is a small Number.
varintLength64(v) == varintLength64At(BytesOf(v, 4), 1)

RECURSIVE varintLength64BigIntAt(_, _)
varintLength64BigIntAt(v, k) ==
  IF k > Len(Masks64) THEN 8
  ELSE IF IsZeroBytes([i \in 1..8 |-> BitAnd(v[i], Masks64[k][i])]) THEN k
  ELSE varintLength64BigIntAt(v, k + 1)

\* varintLength64BigInt(v: bigint): the masks are BigInt literals, & is exact.
varintLength64BigInt(v) == varintLength64BigIntAt(v, 1)

varintLength128(v) ==
  IF ~IsZeroBytes(v.high) THEN 8 + varintLength64BigInt(v.high)
  ELSE varintLength64BigInt(v.low)

\* varintLength32(v: number): & works on the ToInt32 of both operands.
varintLength32(v) ==
  IF IsZeroBytes(And32(ToInt32(v), <<255, 255, 255, 0>>)) THEN 1
  ELSE IF IsZeroBytes(And32(ToInt32(v), <<255, 255, 0, 0>>)) THEN 2
  ELSE IF IsZeroBytes(And32(ToInt32(v), <<255, 0, 0, 0>>)) THEN 3
  ELSE 4

\* appendVarint128 copying the leading bytes instead of the trailing ones.
appendVarint128Leading(v, length) == subarray(Uint128_bytes(v), 0, length)

\* The bytes appendVarint128 copies: bytes().subarray(16 - length).
appendVarint128(v, length) == subarray(Uint128_bytes(v), 16 - length, 16)

\* The bytes appendVarint64 copies: writeBigUInt64BE(BigInt(v)), subarray(8 - length).
appendVarint64(v, length) == subarray(Zeros(4) \o BytesOf(v, 4), 8 - length, 8)

\* The bytes appendVarint32 copies: writeUInt32BE(v), subarray(4 - length).
appendVarint32(v, length) == subarray(writeUInt32BE(v).val, 4 - length, 4)

-----------------------------------------------------------------------------
(* compressed-set.ts: the encoder.  The output buffer is allocated once;   *)
(* records are written at pos, which only grows, so the buffer is kept as  *)
(* its capacity, the bytes that landed in it and pos.  A write past the    *)
(* end of a Buffer stores nothing.                                         *)

NewBuffer(capacity) == [cap |-> capacity, bytes |-> <<>>, pos |-> 0]

\* Store bs at pos and advance pos by Len(bs).
Put(w, bs) ==
  [w EXCEPT !.bytes = w.bytes \o subarray(bs, 0, w.cap - Len(w.bytes)),
            !.pos = w.pos + Len(bs)]

\* buffer.subarray(0, pos)
Written(w) == w.bytes

\* One iteration of rangeLength's loop; st.done is set by a break.
rangeStep(ids, timestamp, i, st) ==
  IF st.done THEN st
  ELSE
    LET id == At(ids, i)
    IN  IF KSUID_toString(id) = KSUID_toString(st.lastKSUID)
        THEN [st EXCEPT !.count = st.count + 1]
        ELSE IF KSUID_timestamp(id) # timestamp
        THEN [st EXCEPT !.done = TRUE]
        ELSE LET v == uint128Payload(id).val
                 expectedNext == Uint128_add(st.currentValue, Uint128_one)
             IN  IF ~Uint128_equals(v, expectedNext)
                 THEN [st EXCEPT !.done = TRUE]
                 ELSE [st EXCEPT !.lastKSUID = id, !.currentValue = v,
                                 !.length = st.length + 1, !.count = st.count + 1]

rangeLength(ids, timestamp, lastKSUID, lastValue) ==
  LET st == ForLoop(LAMBDA i, s : rangeStep(ids, timestamp, i, s), 0, Len(ids),
                    [length |-> 0, count |-> 0, lastKSUID |-> lastKSUID,
                     currentValue |-> lastValue, done |-> FALSE])
  IN  [length |-> st.length, count |-> st.count]

\* uniqueIds.slice(start)
slice(a, start) == subarray(a, start, Len(a))

\* One iteration of the duplicate-removal loop: seen holds the toString() keys.
dedupStep(ids, k, st) ==
  LET id  == At(ids, k)
      key == KSUID_toString(id)
  IN  IF key \notin st.seen
      THEN [uniqueIds |-> Append(st.uniqueIds, id), seen |-> st.seen \cup {key}]
      ELSE st

dedup(ids) ==
  ForLoop(LAMBDA k, st : dedupStep(ids, k, st), 0, Len(ids),
          [uniqueIds |-> <<>>, seen |-> {}]).uniqueIds

\* A loop body that writes every identifier as a Raw record.
encodeStepRaw(uniqueIds, st) ==
  [st EXCEPT !.i = st.i + 1,
             !.w = Put(Put(st.w, <<RAW_KSUID>>), At(uniqueIds, st.i))]

\* The body of the main loop, for (let i = 1; i < uniqueIds.length; i++), at
\* i = st.i.  It leaves st.i at the next value of i (after the i++), and
\* st.done after the break.
encodeStep(uniqueIds, st) ==
  LET i  == st.i
      w  == st.w
      id == At(uniqueIds, i)
      t  == KSUID_timestamp(id)
      v  == uint128Payload(id).val
  IN
  IF t # st.timestamp
  THEN LET delta       == BigSub(t, st.timestamp, 0).bytes
           deltaLength == varintLength32(delta)
           w1 == Put(w, <<BitOr(TIME_DELTA, deltaLength)>>)
           w2 == Put(w1, appendVarint32(delta, deltaLength))
           w3 == Put(w2, KSUID_payload(id))
       IN  [st EXCEPT !.i = i + 1, !.w = w3, !.timestamp = t, !.lastValue = v]
  ELSE
    LET delta == Uint128_sub(v, st.lastValue)
        deltaLength == varintLength128(delta)
        asDelta == Put(Put(w, <<BitOr(PAYLOAD_DELTA, deltaLength)>>),
                       appendVarint128(delta, deltaLength))
    IN
    IF ~Uint128_equals(delta, Uint128_one)
    THEN [st EXCEPT !.i = i + 1, !.w = asDelta, !.lastValue = v]
    ELSE
      LET r == rangeLength(slice(uniqueIds, i + 1), st.timestamp, id, v)
      IN
      IF r.length > 0
      THEN LET rangeSize       == r.length + 1
               rangeSizeLength == varintLength64(rangeSize)
               w1 == Put(w, <<BitOr(PAYLOAD_RANGE, rangeSizeLength)>>)
               w2 == Put(w1, appendVarint64(rangeSize, rangeSizeLength))
               i2 == i + r.count
           IN  IF i2 < Len(uniqueIds)
               THEN \* lastValue is set from uniqueIds[i2] and then, at the
                    \* end of the loop body, set again to v.
                    LET lastValueInRange == uint128Payload(At(uniqueIds, i2)).val
                        lastValueAtEnd   == v
                    IN  [st EXCEPT !.i = i2 + 1, !.w = w2, !.lastValue = lastValueAtEnd]
               ELSE [st EXCEPT !.i = i2, !.w = w2, !.done = TRUE]
      ELSE [st EXCEPT !.i = i + 1, !.w = asDelta, !.lastValue = v]

appendCompressed(capacity, ids) ==
  IF Len(ids) = 0 THEN <<>>
  ELSE
    LET deduped   == dedup(ids)
        uniqueIds == IF ~isSorted(deduped) THEN sort(deduped) ELSE deduped
    IN
    IF Len(uniqueIds) = 0 THEN <<>>
    ELSE LET first == At(uniqueIds, 0)
             w1 == Put(NewBuffer(capacity), <<RAW_KSUID>>)
             w2 == Put(w1, first)
             st == ForLoop(LAMBDA k, s : IF s.done \/ s.i # k THEN s
                                         ELSE encodeStep(uniqueIds, s),
                           1, Len(uniqueIds),
                           [i |-> 1, w |-> w2, timestamp |-> KSUID_timestamp(first),
                            lastValue |-> uint128Payload(first).val, done |-> FALSE])
         IN  Written(st.w)

Max(a, b) == IF a >= b THEN a ELSE b

\* CompressedSet.compress(...ids): the content of the new set.
compress(ids) ==
  LET capacity == Max(100, 1 + 20 + (Len(ids) \div 5))
  IN  appendCompressed(capacity * 10, ids)

-----------------------------------------------------------------------------
(* compressed-set.ts: CompressedSetIter *)

\* readVarint32: Buffer.copy throws a RangeError for a negative targetStart.
readVarint32(buffer) ==
  IF 4 - Len(buffer) < 0 THEN RangeError
  ELSE Ok(Zeros(NUM_BYTES - 4) \o Zeros(4 - Len(buffer)) \o buffer)

\* A Number of 2^54 or more.  Doubles of that size are at least 4 apart, so
\* the value stands for every one of them: subtracting 1 rounds back to it.
HugeNumber == NatOf(<<127, 255, 255, 255>>)

\* n - 1 in double arithmetic.
MinusOne(n) == IF n = HugeNumber THEN n ELSE n - 1

\* readVarint64: Number(temp.readBigUInt64BE(0)).  A value of 2^54 or more
\* becomes HugeNumber; the values drawn below that are less than 2^31.
readVarint64(buffer) ==
  IF 8 - Len(buffer) < 0 THEN RangeError
  ELSE LET temp == Zeros(8 - Len(buffer)) \o buffer
       IN  IF temp[1] > 0 \/ temp[2] >= 64 THEN Ok(HugeNumber)
           ELSE Ok(NatOf(temp))

readVarint128(buffer) ==
  IF 16 - Len(buffer) < 0 THEN RangeError
  ELSE makeUint128FromPayload(Zeros(16 - Len(buffer)) \o buffer)

\* The iterator's fields.
IterState(offset, seqlength, timestamp, lastValue, ksuid) ==
  [offset |-> offset, seqlength |-> seqlength, timestamp |-> timestamp,
   lastValue |-> lastValue, ksuid |-> ksuid]

\* An iterator that starts as if inside a range.
NewIterInRange == IterState(0, 1, Zeros(NUM_BYTES), Uint128_zero, KSUID_nil)

\* The fields of a new CompressedSetIter.
NewIter == IterState(0, 0, Zeros(NUM_BYTES), Uint128_zero, KSUID_nil)

\* The outcome of one call: the fields it leaves and what it returns
\* ("true", "false") or throws ("throw", with the error code).
Return(it, ret) == [it |-> it, ret |-> ret, error |-> "none"]

Throw(it, e) == [it |-> it, ret |-> "throw", error |-> e.err]

\* An end-of-buffer return that also rewinds the cursor.
nextAtEndRewinding(content, it) == Return([it EXCEPT !.offset = 0], "false")

\* if (this.offset >= this.content.length) return false;
nextAtEnd(content, it) == Return(it, "false")

nextInRange(content, it) ==
  LET value == Uint128_incr(it.lastValue)
      k     == KSUID_fromBytesOf(Uint128_ksuid(value, it.timestamp))
  IN  IF ~k.ok THEN Throw(it, k)
      ELSE Return([it EXCEPT !.ksuid = k.val,
                             !.seqlength = MinusOne(it.seqlength),
                             !.lastValue = value], "true")

nextRaw(content, it1) ==
  LET ksuidBuffer == subarray(content, it1.offset, it1.offset + 20)
      k == KSUID_fromBytes(ksuidBuffer)
  IN  IF ~k.ok THEN Throw(it1, k)
      ELSE Return([it1 EXCEPT !.ksuid = k.val,
                              !.offset = it1.offset + 20,
                              !.timestamp = KSUID_timestamp(k.val),
                              !.lastValue = uint128Payload(k.val).val], "true")

nextTimeDelta(content, it1, cnt) ==
  LET deltaBuffer == subarray(content, it1.offset, it1.offset + cnt)
      delta == readVarint32(deltaBuffer)
  IN  IF ~delta.ok THEN Throw(it1, delta)
      ELSE
        LET timestamp == LowBytes(BigAdd(it1.timestamp, delta.val, 0), NUM_BYTES)
            offset2 == it1.offset + cnt
            payloadBuffer == subarray(content, offset2, offset2 + 16)
            it2 == [it1 EXCEPT !.offset = offset2 + 16, !.timestamp = timestamp]
            ts == writeUInt32BE(timestamp)
            \* Buffer.alloc(20), the timestamp, then the payload bytes there are.
            k  == KSUID_fromBytesOf(
                    IF ts.ok
                    THEN Ok(ts.val \o payloadBuffer \o Zeros(16 - Len(payloadBuffer)))
                    ELSE ts)
        IN  IF ~k.ok THEN Throw(it2, k)
            ELSE Return([it2 EXCEPT !.ksuid = k.val,
                                    !.lastValue = uint128Payload(k.val).val], "true")

nextPayloadDelta(content, it1, cnt) ==
  LET deltaBuffer == subarray(content, it1.offset, it1.offset + cnt)
      delta == readVarint128(deltaBuffer)
  IN  IF ~delta.ok THEN Throw(it1, delta)
      ELSE
        LET it2 == [it1 EXCEPT !.offset = it1.offset + cnt]
            value == Uint128_add(it1.lastValue, delta.val)
            k == KSUID_fromBytesOf(Uint128_ksuid(value, it1.timestamp))
        IN  IF ~k.ok THEN Throw(it2, k)
            ELSE Return([it2 EXCEPT !.ksuid = k.val, !.lastValue = value], "true")

\* PAYLOAD_RANGE that leaves the whole count still to play.
nextPayloadRangeOffByOne(content, it1, cnt) ==
  LET lengthBuffer == subarray(content, it1.offset, it1.offset + cnt)
      rangeLen == readVarint64(lengthBuffer)
  IN  IF ~rangeLen.ok THEN Throw(it1, rangeLen)
      ELSE
        LET it2 == [it1 EXCEPT !.offset = it1.offset + cnt]
            value == Uint128_incr(it1.lastValue)
            k == KSUID_fromBytesOf(Uint128_ksuid(value, it1.timestamp))
        IN  IF ~k.ok THEN Throw(it2, k)
            ELSE Return([it2 EXCEPT !.ksuid = k.val,
                                    !.seqlength = rangeLen.val,
                                    !.lastValue = value], "true")

nextPayloadRange(content, it1, cnt) ==
  LET lengthBuffer == subarray(content, it1.offset, it1.offset + cnt)
      rangeLen == readVarint64(lengthBuffer)
  IN  IF ~rangeLen.ok THEN Throw(it1, rangeLen)
      ELSE
        LET it2 == [it1 EXCEPT !.offset = it1.offset + cnt]
            value == Uint128_incr(it1.lastValue)
            k == KSUID_fromBytesOf(Uint128_ksuid(value, it1.timestamp))
        IN  IF ~k.ok THEN Throw(it2, k)
            ELSE Return([it2 EXCEPT !.ksuid = k.val,
                                    !.seqlength = MinusOne(rangeLen.val),
                                    !.lastValue = value], "true")

\* CompressedSetIter.next() on an iterator with fields it over content.
iterNext(content, it) ==
  IF it.seqlength > 0 THEN nextInRange(content, it)
  ELSE IF it.offset >= Len(content) THEN nextAtEnd(content, it)
  ELSE
    LET b    == At(content, it.offset)
        it1  == [it EXCEPT !.offset = it.offset + 1]
        mask == BitOr(BitOr(RAW_KSUID, TIME_DELTA), BitOr(PAYLOAD_DELTA, PAYLOAD_RANGE))
        tag  == BitAnd(b, mask)
        cnt  == b - BitAnd(b, mask)        \* b & ~mask
    IN  CASE tag = RAW_KSUID     -> nextRaw(content, it1)
          [] tag = TIME_DELTA    -> nextTimeDelta(content, it1, cnt)
          [] tag = PAYLOAD_DELTA -> nextPayloadDelta(content, it1, cnt)
          [] tag = PAYLOAD_RANGE -> nextPayloadRange(content, it1, cnt)
          [] OTHER               -> Throw(it1, malformedData)

-----------------------------------------------------------------------------
(* The inputs the model draws from. *)

\* Longest list of identifiers drawn from a universe (any order, repeats).
MaxIds == 3

\* Longest of the short consecutive runs.
MaxRun == 5

\* A consecutive run long enough for its count to need two bytes.
BigRun == 257

\* Identifiers at as many distinct, far apart timestamps.
SpreadLen == 48

\* How often each identifier of the longest list is repeated.
Repeats == 8

U32(b1, b2, b3, b4) == Zeros(NUM_BYTES - 4) \o <<b1, b2, b3, b4>>

\* A 16-byte payload ending in the given bytes.
Payload(tail) == Zeros(16 - Len(tail)) \o tail

Id(timestamp, payload) == KSUID_fromParts(timestamp, payload).val

T0 == U32(5, 169, 168, 68)

P0 == <<102, 159, 126, 253, 123, 111, 232, 18, 39, 132, 134, 8, 88, 120, 86, 61>>

\* One timestamp: consecutive payloads and a gap.
UniverseRun ==
  { Id(T0, Payload(<<0>>)), Id(T0, Payload(<<1>>)), Id(T0, Payload(<<2>>)),
    Id(T0, Payload(<<5>>)) }

\* The top of the payload range at the last timestamp.
UniverseTop ==
  { Id(U32(255, 255, 255, 255), Ones(15) \o <<252>>),
    Id(U32(255, 255, 255, 255), Ones(15) \o <<253>>),
    Id(U32(255, 255, 255, 255), Ones(15) \o <<255>>),
    Id(U32(0, 0, 0, 0), Ones(16)) }

\* Payload gaps of 2, 8, 9 and 16 bytes.
UniverseGap ==
  { Id(T0, Payload(<<0>>)), Id(T0, Payload(<<1, 0>>)),
    Id(T0, Payload(<<1, 0, 0, 0, 0, 0, 0, 0, 0>>)),
    Id(T0, <<128>> \o Zeros(15)) }

\* Timestamp gaps of 1 to 4 bytes.
UniverseTime ==
  { Id(U32(0, 0, 0, 0), P0), Id(U32(0, 0, 0, 1), P0),
    Id(U32(0, 1, 0, 1), Payload(<<7>>)), Id(U32(255, 255, 255, 255), P0) }

Universes == {UniverseRun, UniverseTop, UniverseGap, UniverseTime}

ListsOver(U, n) == UNION { [1..k -> U] : k \in 0..n }

\* n identifiers at timestamp T0 with payloads p, p+1, ..., p+n-1.
Run(p, n) ==
  ForLoop(LAMBDA k, st : [v |-> Uint128_incr(st.v),
                          l |-> Append(st.l, Id(T0, Uint128_bytes(st.v)))],
          0, n, [v |-> p, l |-> <<>>]).l

\* Runs start at 0, just below 2^64 (the carry into the high half) and so
\* that a run followed by a gap of 2 ends at the largest payload.
RunStarts(n) ==
  { Uint128_zero,
    Uint128(Ones(7) \o <<254>>, Zeros(8)),
    Uint128(Ones(7) \o <<254 - n>>, Ones(8)) }

\* Run(p, n) followed by the identifier whose payload is gap above the run's last.
RunThenGap(p, n, gap) ==
  LET l    == Run(p, n)
      last == uint128Payload(l[n]).val
      next == Uint128_add(last, Uint128(Zeros(7) \o <<gap>>, Zeros(8)))
  IN  Append(l, Id(T0, Uint128_bytes(next)))

Gaps == {2, 200}

\* n identifiers with the payload P0 at timestamps 0, 2^24, 2 * 2^24, ...
Spread(n) == [k \in 1..n |-> Id(U32(k - 1, 0, 0, 0), P0)]

\* Every element of l, r times in a row.
Repeated(l, r) == [k \in 1..(Len(l) * r) |-> l[((k - 1) \div r) + 1]]

Inputs ==
  UNION { ListsOver(U, MaxIds) : U \in Universes }
    \cup UNION { { Run(p, n) : p \in RunStarts(n) } : n \in 3..MaxRun }
    \cup UNION { { RunThenGap(p, n, gap) :
                     p \in RunStarts(n) \ {Uint128(Ones(7) \o <<254 - n>>, Ones(8))},
                     gap \in Gaps } : n \in 2..MaxRun }
    \cup { RunThenGap(Uint128(Ones(7) \o <<254 - n>>, Ones(8)), n, 2) :
             n \in 2..MaxRun }
    \cup { Run(Uint128_zero, BigRun), Spread(SpreadLen),
           Repeated(Spread(SpreadLen + 2), Repeats),
           \* payloads 0, 1, 2, 3, 4 and 1000
           Append(Run(Uint128_zero, 5), Id(T0, Payload(<<3, 232>>))) }

Prefixes(buf) == { subarray(buf, 0, n) : n \in 0..Len(buf) }

\* Buffers handed to fromBuffer: every prefix of three encoded sets, and
\* buffers no encoder wrote.
Buffers ==
  Prefixes(compress(<<Id(T0, Payload(<<0>>)), Id(T0, Payload(<<5>>))>>))
    \cup Prefixes(compress(<<Id(U32(0, 0, 0, 0), P0),
                             Id(U32(255, 255, 255, 255), P0)>>))
    \cup Prefixes(compress(Run(Uint128_zero, 3)))
    \cup { <<255, 255, 255>>,
           <<0>> \o Id(T0, P0) \o <<193, 0>>,
           <<0>> \o Id(T0, Payload(<<0>>)) \o <<200>> \o Ones(8),
           <<0>> \o Id(T0, Ones(15) \o <<254>>) \o <<193, 3>>,
           <<0>> \o Id(T0, P0) \o <<69, 1, 2, 3, 4, 5>> \o P0,
           <<0>> \o Id(U32(255, 255, 255, 255), P0) \o <<65, 1>> \o P0 \o <<129, 1>> }

-----------------------------------------------------------------------------
(* The state machine: a set is built once, by compress or by fromBuffer,   *)
(* and one iterator over it is advanced with next().                       *)

VARIABLES
  pc,         \* "start", then "iter" while next() is called, "done" after the
              \* first false, "ended" after a later one, "failed" after a throw
  ids,        \* the identifiers given to compress
  content,    \* CompressedSet.content
  collect,    \* TRUE when the iterator is driven by toArray
  offset, seqlength, timestamp, lastValue, ksuid,   \* CompressedSetIter
  ret,        \* what the last next() did: "none", "true", "false", "throw"
  error,      \* the code of the error it threw, or "none"
  out,        \* toArray's result so far
  args,       \* the operands of the function applied on its own
  result      \* what it returned

vars == <<pc, ids, content, collect, offset, seqlength, timestamp, lastValue,
          ksuid, ret, error, out, args, result>>

iter == IterState(offset, seqlength, timestamp, lastValue, ksuid)

SetIter(it) ==
  /\ offset' = it.offset
  /\ seqlength' = it.seqlength
  /\ timestamp' = it.timestamp
  /\ lastValue' = it.lastValue
  /\ ksuid' = it.ksuid

Init ==
  /\ pc = "start"
  /\ ids = <<>>
  /\ content = <<>>
  /\ collect = FALSE
  /\ offset = NewIter.offset
  /\ seqlength = NewIter.seqlength
  /\ timestamp = NewIter.timestamp
  /\ lastValue = NewIter.lastValue
  /\ ksuid = NewIter.ksuid
  /\ ret = "none"
  /\ error = "none"
  /\ out = <<>>
  /\ args = <<>>
  /\ result = <<>>

\* CompressedSet.compress(...input).toArray() begins.
Compress ==
  /\ pc = "start"
  /\ \E input \in Inputs :
       /\ ids' = input
       /\ content' = compress(input)
  /\ collect' = TRUE
  /\ pc' = "iter"
  /\ UNCHANGED <<offset, seqlength, timestamp, lastValue, ksuid, ret, error, out>>
  /\ UNCHANGED <<args, result>>

\* CompressedSet.fromBuffer(buffer).iter()
FromBuffer ==
  /\ pc = "start"
  /\ \E buffer \in Buffers : content' = buffer
  /\ collect' = FALSE
  /\ pc' = "iter"
  /\ UNCHANGED <<ids, offset, seqlength, timestamp, lastValue, ksuid, ret, error, out>>
  /\ UNCHANGED <<args, result>>

\* How many identifiers of a range that never runs out are played.
MaxStuck == 4

\* next() is called on: the iterator has neither returned false nor thrown
\* (and the range that never runs out has not been played long enough).
CanCall ==
  /\ pc = "iter"
  /\ seqlength = HugeNumber => NatOf(lastValue.low) < MaxStuck

\* One call of next(); toArray pushes iter.ksuid when it returns true and
\* stops when it returns false or throws.
IterNext ==
  /\ CanCall
  /\ LET r == iterNext(content, iter)
     IN  /\ SetIter(r.it)
         /\ ret' = r.ret
         /\ error' = r.error
         /\ out' = IF collect /\ r.ret = "true" THEN Append(out, r.it.ksuid) ELSE out
         /\ pc' = CASE r.ret = "true"  -> "iter"
                    [] r.ret = "false" -> "done"
                    [] r.ret = "throw" -> "failed"
  /\ UNCHANGED <<ids, content, collect, args, result>>

\* Sets built by compress and read back by toArray.
Next == Compress \/ IterNext

Spec == Init /\ [][Next]_vars

\* next() called again on an iterator that has returned false.
NextAfterEnd ==
  /\ pc \in {"done", "ended"}
  /\ ~collect
  /\ LET r == iterNext(content, iter)
     IN  /\ SetIter(r.it)
         /\ ret' = r.ret
         /\ error' = r.error
         /\ pc' = CASE r.ret = "true"  -> "iter"
                    [] r.ret = "false" -> "ended"
                    [] r.ret = "throw" -> "failed"
  /\ UNCHANGED <<ids, content, collect, out, args, result>>

\* Sets built by fromBuffer and read with next(), also past the end.
NextBuffer == FromBuffer \/ IterNext \/ NextAfterEnd

SpecBuffer == Init /\ [][NextBuffer]_vars

\* The same, by a caller that builds the set and goes on calling next()
\* until it returns false or throws, as the loop of toArray does: weak
\* fairness of FromBuffer and of IterNext.  Both change the state whenever
\* their guard holds (a call moves offset, lastValue or pc), and no other
\* action is enabled where it holds, so that ENABLED <<A>>_vars is the guard
\* and an <<A>>_vars step is a step taken from it; the fairness conditions
\* are written out with that.
FairSpecBuffer ==
  /\ SpecBuffer
  /\ []<>(pc # "start") \/ []<><<pc = "start">>_vars
  /\ []<>~CanCall \/ []<><<CanCall>>_vars

-----------------------------------------------------------------------------
(* uint128.ts on its own: the operands are drawn, one method is applied.   *)

\* Operands at the edges of the two 64-bit halves, and ordinary ones.
Uint128Values ==
  { Uint128_zero, Uint128_one, Uint128_max,
    Uint128(Ones(8), Zeros(8)),                  \* 2^64 - 1
    Uint128(Zeros(8), Zeros(7) \o <<1>>),        \* 2^64
    Uint128(Zeros(7) \o <<1>>, Zeros(7) \o <<1>>),
    Uint128(Zeros(8), Ones(8)),
    Uint128(Ones(7) \o <<254>>, Ones(8)),        \* 2^128 - 2
    Uint128(<<128>> \o Zeros(7), Zeros(8)),      \* 2^63
    Uint128(Zeros(8), <<128>> \o Zeros(7)),      \* 2^127
    Uint128(subarray(P0, 8, 16), subarray(P0, 0, 8)) }

\* Buffers handed to makeUint128FromPayload: 0, 1, 15, 16, 17 and 20 bytes.
PayloadBuffers ==
  { <<>>, <<7>>, subarray(P0, 0, 15), P0, Ones(16), Zeros(16),
    Zeros(7) \o <<1>> \o Ones(7) \o <<2>>, P0 \o <<0>>, Id(T0, P0) }

\* The codec is not used.
CodecIdle ==
  /\ ids = <<>>
  /\ content = <<>>
  /\ collect = FALSE
  /\ offset = NewIter.offset
  /\ seqlength = NewIter.seqlength
  /\ timestamp = NewIter.timestamp
  /\ lastValue = NewIter.lastValue
  /\ ksuid = NewIter.ksuid
  /\ ret = "none"
  /\ error = "none"
  /\ out = <<>>

CodecUnchanged ==
  UNCHANGED <<ids, content, collect, offset, seqlength, timestamp, lastValue,
              ksuid, ret, error, out>>

\* pc' names the method applied to args, result' is what it returned.
Apply(method, value) ==
  /\ pc = "start"
  /\ pc' = method
  /\ result' = value
  /\ UNCHANGED args
  /\ CodecUnchanged

InitUint128 ==
  /\ pc = "start"
  /\ args \in [a : Uint128Values, b : Uint128Values, payload : PayloadBuffers]
  /\ result = <<>>
  /\ CodecIdle

Add == Apply("add", Uint128_add(args.a, args.b))

Sub == Apply("sub", Uint128_sub(args.a, args.b))

Incr == Apply("incr", Uint128_incr(args.a))

Decr == Apply("decr", Uint128_decr(args.a))

Compare ==
  Apply("compare", [compare |-> Uint128_compare(args.a, args.b),
                    equals  |-> Uint128_equals(args.a, args.b)])

\* makeUint128FromPayload(payload).bytes()
FromPayload ==
  Apply("makeUint128FromPayload",
        LET u == makeUint128FromPayload(args.payload)
        IN  IF u.ok THEN Ok(Uint128_bytes(u.val)) ELSE u)

NextUint128 == Add \/ Sub \/ Incr \/ Decr \/ Compare \/ FromPayload

SpecUint128 == InitUint128 /\ [][NextUint128]_vars

-----------------------------------------------------------------------------
(* The varint utilities on their own: a value is drawn, its length is      *)
(* computed, its bytes are written and read back.                          *)

\* Range counts (Numbers) around the 1, 2, 3 and 4 byte boundaries.
Counts == {1, 2, 255, 256, 257, 65535, 65536, 16777216}

\* Timestamp differences (Numbers below 2^32).
Deltas32 ==
  { U32(0, 0, 0, 0), U32(0, 0, 0, 1), U32(0, 0, 0, 255), U32(0, 0, 1, 0),
    U32(0, 0, 255, 255), U32(0, 1, 0, 0), U32(0, 255, 255, 255),
    U32(1, 0, 0, 0), U32(128, 0, 0, 0), U32(255, 255, 255, 255) }

\* Payload differences.
Deltas128 ==
  { Uint128_zero, Uint128_one, Uint128_max,
    Uint128(Zeros(7) \o <<255>>, Zeros(8)),
    Uint128(Zeros(6) \o <<1, 0>>, Zeros(8)),
    Uint128(<<1>> \o Zeros(7), Zeros(8)),         \* 2^56
    Uint128(Ones(8), Zeros(8)),                   \* 2^64 - 1
    Uint128(Zeros(8), Zeros(7) \o <<1>>),         \* 2^64
    Uint128(Ones(8), Zeros(6) \o <<1, 0>>),
    Uint128(Zeros(8), <<1>> \o Zeros(7)),         \* 2^120
    Uint128(subarray(P0, 8, 16), subarray(P0, 0, 8)) }

InitVarint ==
  /\ pc = "start"
  /\ args \in [count : Counts, delta32 : Deltas32, delta128 : Deltas128]
  /\ result = <<>>
  /\ CodecIdle

\* varintLength64, appendVarint64 and readVarint64 on a range count.
Varint64 ==
  Apply("varint64",
        LET length == varintLength64(args.count)
            bytes  == appendVarint64(args.count, length)
        IN  [length |-> length, bytes |-> bytes, back |-> readVarint64(bytes)])

\* varintLength32, appendVarint32 and readVarint32 on a timestamp difference.
Varint32 ==
  Apply("varint32",
        LET length == varintLength32(args.delta32)
            bytes  == appendVarint32(args.delta32, length)
        IN  [length |-> length, bytes |-> bytes, back |-> readVarint32(bytes)])

\* varintLength128, appendVarint128 and readVarint128 on a payload difference.
Varint128 ==
  Apply("varint128",
        LET length == varintLength128(args.delta128)
            bytes  == appendVarint128(args.delta128, length)
        IN  [length |-> length, bytes |-> bytes, back |-> readVarint128(bytes)])

NextVarint == Varint64 \/ Varint32 \/ Varint128

SpecVarint == InitVarint /\ [][NextVarint]_vars

-----------------------------------------------------------------------------
(* ksuid.ts on its own: an identifier is drawn and stepped.                *)

\* Identifiers at the first and last timestamps and in between, with
\* payloads at the edges of the two 64-bit halves.
KsuidValues ==
  { Id(ts, Uint128_bytes(u)) :
      ts \in { U32(0, 0, 0, 0), U32(0, 0, 0, 1), T0, U32(0, 255, 255, 255),
               U32(255, 255, 255, 254), U32(255, 255, 255, 255) },
      u \in Uint128Values }

InitKsuid ==
  /\ pc = "start"
  /\ args \in [k : KsuidValues]
  /\ result = <<>>
  /\ CodecIdle

\* k.next()
StepNext == Apply("next", KSUID_next(args.k))

\* k.prev()
StepPrev == Apply("prev", KSUID_prev(args.k))

\* k.next().prev()
StepNextPrev ==
  Apply("next.prev", LET n == KSUID_next(args.k)
                     IN  IF n.ok THEN KSUID_prev(n.val) ELSE n)

NextKsuid == StepNext \/ StepPrev \/ StepNextPrev

SpecKsuid == InitKsuid /\ [][NextKsuid]_vars

-----------------------------------------------------------------------------
(* sort.ts on its own: an array is drawn and sorted, or tested.            *)

\* Longest array drawn in every order and with repeats.
MaxArray == 4

\* The array in reverse order.
Reverse(a) == [k \in 1..Len(a) |-> a[Len(a) + 1 - k]]

\* Arrays of up to MaxArray identifiers in any order, with repeats, and a
\* longer one in descending order.
ArraysToSort ==
  ListsOver(UniverseTime, MaxArray)
    \cup { Reverse(Run(Uint128_zero, MaxRun + MaxArray)) }

InitSort ==
  /\ pc = "start"
  /\ args \in [ids : ArraysToSort]
  /\ result = <<>>
  /\ CodecIdle

\* sort(ids), then isSorted(ids) on the array it left.
Sort ==
  Apply("sort", LET a == sort(args.ids) IN [ids |-> a, isSorted |-> isSorted(a)])

\* isSorted(ids) on the array as drawn.
IsSorted == Apply("isSorted", isSorted(args.ids))

NextSort == Sort \/ IsSorted

SpecSort == InitSort /\ [][NextSort]_vars

-----------------------------------------------------------------------------
(* Reference notions the claims are stated with.  They are defined on the  *)
(* bytes alone and use none of the codec's operators.                      *)

\* a < b in the unsigned byte-lexicographic order (a, b of one length).
Less(a, b) ==
  LET d == { i \in 1..Len(a) : a[i] # b[i] }
  IN  d # {} /\ (LET i == CHOOSE m \in d : \A n \in d : m <= n IN a[i] < b[i])

\* The set of the elements of a list.
Distinct(l) == { l[k] : k \in 1..Len(l) }

\* The elements of a set of byte sequences in ascending order.
Ascending(S) ==
  LET rank == [x \in S |-> Cardinality({ y \in S : Less(y, x) })]
  IN  [r \in 1..Cardinality(S) |-> CHOOSE x \in S : rank[x] = r - 1]

\* o is sort(dedupe(l)): the elements of l, ascending, each once.
IsSortedDistinct(o, l) ==
  /\ Distinct(o) = Distinct(l)
  /\ Len(o) = Cardinality(Distinct(l))
  /\ \A k \in 1..(Len(o) - 1) : Less(o[k], o[k + 1])

\* The list with every repeat of an earlier element removed.
RemoveRepeats(l) ==
  LET kept == { k \in 1..Len(l) : \A j \in 1..(k - 1) : l[j] # l[k] }
      rank == [k \in kept |-> Cardinality({ j \in kept : j < k })]
  IN  [r \in 1..Cardinality(kept) |-> l[CHOOSE k \in kept : rank[k] = r - 1]]

TimestampOf(id) == [i \in 1..4 |-> id[i]]

PayloadOf(id) == [i \in 1..16 |-> id[4 + i]]

\* field, a trimmed big-endian value, zero-extended to n bytes.
ZeroExtend(field, n) == [i \in 1..n |-> IF i <= n - Len(field) THEN 0
                                        ELSE field[i - (n - Len(field))]]

\* a + d = b as exact integers, for n-byte a, b and d.
SumIs(a, d, b) == BigAdd(a, d, 0) = <<0>> \o b

\* The identifier one above id at the same timestamp; <<>> above the largest payload.
Successor(id) ==
  LET p == BigAdd(PayloadOf(id), Zeros(15) \o <<1>>, 0)
  IN  IF p[1] # 0 THEN <<>> ELSE TimestampOf(id) \o Tail(p)

\* S is N >= 3 identifiers of one timestamp with payloads P, P+1, ..., P+N-1.
IsRunSet(S) ==
  /\ Cardinality(S) >= 3
  /\ Cardinality({ x \in S : Successor(x) \notin S }) = 1

\* The records of a buffer by the wire format: each starts with a tag byte
\* (kind in the top two bits, field length cnt in the low six) and ends at
\* end, which lies past the buffer when the record is cut short.
RecordLength(tag, cnt) ==
  CASE tag = 0 -> 21 [] tag = 64 -> 1 + cnt + 16 [] OTHER -> 1 + cnt

Records(buf) ==
  ForLoop(LAMBDA k, st :
            IF k # st.next THEN st
            ELSE LET tag == (buf[k + 1] \div 64) * 64
                     cnt == buf[k + 1] % 64
                 IN  [next |-> k + RecordLength(tag, cnt),
                      recs |-> Append(st.recs,
                                      [pos |-> k, tag |-> tag, cnt |-> cnt,
                                       end |-> k + RecordLength(tag, cnt)])],
          0, Len(buf), [next |-> 0, recs |-> <<>>]).recs

\* The bytes of the field of record r (those the buffer holds).
FieldOf(buf, r) == subarray(buf, r.pos + 1, r.pos + 1 + r.cnt)

\* The set was built by compress and next() has not been called yet.
Compressed == collect /\ pc = "iter" /\ ret = "none"

-----------------------------------------------------------------------------
(* Claims about compress followed by iteration (specification Spec).       *)

\* C1: for every input list, collecting the identifiers that iteration of
\* compress(ids) yields gives sort(dedupe(ids)): the same identifiers,
\* ascending, each once.
RoundTrip == (collect /\ pc = "done") => IsSortedDistinct(out, ids)

\* C2: for every input list, the identifiers produced by iterating
\* compress(ids) are strictly ascending: each one is greater than the one
\* before it.
StrictlyAscending ==
  collect => \A k \in 1..(Len(out) - 1) : Less(out[k], out[k + 1])

\* C3: for every input list, iteration of compress(ids) yields exactly as
\* many identifiers as the input holds distinct values.
CardinalityPreserved ==
  (collect /\ pc = "done") => Len(out) = Cardinality(Distinct(ids))

\* C4: an input of N >= 3 identifiers of one timestamp with consecutive
\* payloads is encoded as one Raw record for the first and one PayloadRange
\* record whose count is N-1, and the decoder yields all N in order.
ConsecutiveRunIsOneRange ==
  (collect /\ pc # "start" /\ IsRunSet(Distinct(ids))) =>
    LET S     == Distinct(ids)
        N     == Cardinality(S)
        first == CHOOSE x \in S : \A y \in S : ~Less(y, x)
        n     == Len(content) - 22
    IN  /\ n \in 1..8
        /\ subarray(content, 0, 21) = <<RAW_KSUID>> \o first
        /\ content[22] = PAYLOAD_RANGE + n
        /\ SumIs(ZeroExtend(subarray(content, 22, 22 + n), 8),
                 Zeros(7) \o <<1>>,
                 BytesOf(N, 8))
        /\ pc = "done" =>
             /\ Len(out) = N
             /\ out[1] = first
             /\ \A k \in 1..(N - 1) : out[k + 1] = Successor(out[k])

\* C5: the encoding depends only on the set of distinct identifiers:
\* compress(ids) is byte for byte compress of the list with all repeats
\* removed, and compress(X, X, X) is the 21-byte Raw record of X, which
\* decodes to X alone.
DuplicatesCollapse ==
  /\ Compressed => content = compress(RemoveRepeats(ids))
  /\ (collect /\ pc # "start" /\ Len(ids) = 3 /\ Cardinality(Distinct(ids)) = 1) =>
       /\ content = <<RAW_KSUID>> \o ids[1]
       /\ pc = "done" => out = <<ids[1]>>

\* The distinct timestamps of a list, ascending.
Timestamps(l) == Ascending({ TimestampOf(x) : x \in Distinct(l) })

\* The least identifier of a list at timestamp t.
FirstAt(l, t) ==
  CHOOSE x \in Distinct(l) :
    /\ TimestampOf(x) = t
    /\ \A y \in Distinct(l) : TimestampOf(y) = t => ~Less(y, x)

TimeDeltaRecords(buf) == SelectSeq(Records(buf), LAMBDA r : r.tag = TIME_DELTA)

\* The input is two identifiers of one timestamp, lo below hi, not adjacent.
IsGapPair(l, lo, hi) ==
  /\ Len(l) = 2
  /\ Distinct(l) = {lo, hi}
  /\ TimestampOf(lo) = TimestampOf(hi)
  /\ Less(lo, hi)
  /\ Successor(lo) # hi

\* C6: two identifiers of one timestamp whose payloads P < Q differ by
\* other than one are encoded as Raw(T, P) followed by one PayloadDelta
\* record carrying Q - P, and the decoder yields (T, P) and then (T, Q).
PayloadGapIsDelta ==
  \A lo, hi \in Distinct(ids) :
    (collect /\ pc # "start" /\ IsGapPair(ids, lo, hi)) =>
      LET n     == Len(content) - 22
          field == subarray(content, 22, 22 + n)
      IN  /\ n \in 1..16
          /\ subarray(content, 0, 21) = <<RAW_KSUID>> \o lo
          /\ content[22] = PAYLOAD_DELTA + n
          /\ SumIs(PayloadOf(lo), ZeroExtend(field, 16), PayloadOf(hi))
          /\ Len(out) = 2 => ksuid = hi
          /\ pc \in {"done", "failed"} => pc = "done" /\ out = <<lo, hi>>

\* A non-adjacent pair whose difference borrows across the two halves has
\* been encoded and read back.
PayloadGapDecoded ==
  /\ collect /\ pc = "done"
  /\ \E lo, hi \in Distinct(ids) :
       /\ IsGapPair(ids, lo, hi)
       /\ out = <<lo, hi>>
       /\ lo[20] = 0 /\ lo[19] = 1 /\ hi[12] = 1
       /\ content[22] = PAYLOAD_DELTA + 8

\* C7: for every change of timestamp between successive identifiers of the
\* sorted input the encoder emits one TimeDelta record, carrying the positive
\* difference of the timestamps and then the 16 payload bytes of the new
\* identifier, and the decoder reading it reconstructs that identifier.
TimestampChangeIsTimeDelta ==
  (collect /\ pc # "start" /\ ids # <<>>) =>
    LET ts == Timestamps(ids)
        td == TimeDeltaRecords(content)
    IN  /\ Len(td) = Len(ts) - 1
        /\ \A j \in 1..Len(td) :
             LET r     == td[j]
                 field == FieldOf(content, r)
             IN  /\ r.cnt \in 1..4
                 /\ r.end <= Len(content)
                 /\ ~IsZeroBytes(field)
                 /\ SumIs(ts[j], ZeroExtend(field, 4), ts[j + 1])
                 /\ subarray(content, r.pos + 1 + r.cnt, r.end)
                      = PayloadOf(FirstAt(ids, ts[j + 1]))
                 /\ (ret = "true" /\ offset = r.end) => ksuid = FirstAt(ids, ts[j + 1])

\* C8: compress of an empty list produces a zero-length buffer, and on it
\* the first next() returns false without yielding an identifier.
EmptyInputIsEmptySet ==
  (collect /\ pc # "start" /\ ids = <<>>) =>
    /\ content = <<>>
    /\ ret # "none" => ret = "false" /\ pc = "done" /\ out = <<>> /\ ksuid = KSUID_nil

\* The empty list has been compressed and next() has been called on the result.
EmptyInputIterated == collect /\ ids = <<>> /\ pc = "done" /\ ret = "false"

-----------------------------------------------------------------------------
(* Claims about iterating a buffer given to fromBuffer (SpecBuffer).       *)

\* C9: when the buffer ends before a record's declared bytes are complete
\* (20 after a Raw tag, cnt of a delta or count field, 16 payload bytes of
\* a TimeDelta), the next() that reaches the record fails with
\* MALFORMED_DATA and yields no identifier built from the partial bytes.
TruncatedRecordIsMalformed ==
  ~collect =>
    \A k \in 1..Len(Records(content)) :
      LET r == Records(content)[k]
      IN  (r.end > Len(content) /\ offset > r.pos) =>
            ret = "throw" /\ error = "MALFORMED_DATA"

\* C10: a byte at a record position that carries no recognized tag makes
\* next() fail with MALFORMED_DATA and yield no identifier; iterating the
\* three bytes ff ff ff reports that error instead of producing identifiers.
UnrecognizedTagIsMalformed ==
  (~collect /\ ret # "none") =>
    /\ \A k \in 1..Len(Records(content)) :
         LET r == Records(content)[k]
         IN  (r.tag \notin {RAW_KSUID, TIME_DELTA, PAYLOAD_DELTA, PAYLOAD_RANGE}
                /\ offset > r.pos) =>
               ret = "throw" /\ error = "MALFORMED_DATA"
    /\ content = <<255, 255, 255>> => ret = "throw" /\ error = "MALFORMED_DATA"

\* C11: once next() has returned false, every later next() on the iterator
\* returns false too and changes none of offset, timestamp, lastValue,
\* seqlength and the current identifier.
TerminalIsAbsorbing ==
  [][ret = "false" =>
       /\ ret' = "false"
       /\ UNCHANGED <<offset, timestamp, lastValue, seqlength, ksuid>>]_vars

\* next() has been called again after the false that ended a non-empty
\* buffer, one that left a range count of 0 behind (seqlength -1).
CalledAfterEnd ==
  pc = "ended" /\ ret = "false" /\ offset = Len(content) /\ seqlength < 0

-----------------------------------------------------------------------------
(* Claims about Uint128 (specification SpecUint128).                       *)

\* The 128-bit value of u as 16 big-endian bytes.
Value(u) == u.high \o u.low

\* C12: add and sub are exact modulo 2^128, the carry or borrow crossing
\* from the low to the high half: a.add(b) is (a + b) mod 2^128 and a.sub(b)
\* is (a - b) mod 2^128; max.add(one) is zero and zero.sub(one) is max.
AddSubModulo ==
  /\ pc = "add" =>
       /\ Value(result) = LowBytes(BigAdd(Value(args.a), Value(args.b), 0), 16)
       /\ (args.a = Uint128_max /\ args.b = Uint128_one) => result = Uint128_zero
  /\ pc = "sub" =>
       /\ Value(result) = BigSub(Value(args.a), Value(args.b), 0).bytes
       /\ (args.a = Uint128_zero /\ args.b = Uint128_one) => result = Uint128_max

\* An addition that carried from the low half into the high half.
AddCarried ==
  /\ pc = "add"
  /\ args.a = Uint128(Ones(8), Zeros(8))
  /\ args.b = Uint128_one
  /\ result = Uint128(Zeros(8), Zeros(7) \o <<1>>)

\* C13: x.incr() equals x.add(one) and x.decr() equals x.sub(one), so
\* max.incr() is zero and zero.decr() is max.
IncrDecrAreAddSubOne ==
  /\ pc = "incr" =>
       /\ result = Uint128_add(args.a, Uint128_one)
       /\ args.a = Uint128_max => result = Uint128_zero
  /\ pc = "decr" =>
       /\ result = Uint128_sub(args.a, Uint128_one)
       /\ args.a = Uint128_zero => result = Uint128_max

\* The largest value has been incremented.
MaxIncremented == pc = "incr" /\ args.a = Uint128_max /\ result = Uint128_zero

\* C14: compare is the three-way comparison of the 128-bit values (-1 for
\* a < b, 1 for a > b, 0 for a = b), and it is 0 exactly when a.equals(b).
CompareIsNumericOrder ==
  pc = "compare" =>
    /\ result.compare = (IF Less(Value(args.a), Value(args.b)) THEN -1
                         ELSE IF Less(Value(args.b), Value(args.a)) THEN 1
                         ELSE 0)
    /\ (result.compare = 0) <=> result.equals
    /\ result.equals <=> (Value(args.a) = Value(args.b))

\* Two values were compared whose halves order them in opposite ways.
ComparedAcrossHalves ==
  /\ pc = "compare"
  /\ args.a = Uint128(Ones(8), Zeros(8))
  /\ args.b = Uint128(Zeros(8), Zeros(7) \o <<1>>)
  /\ result.compare = -1

\* C15: for every 16-byte buffer b, makeUint128FromPayload(b).bytes() is b;
\* for a buffer of any other length it fails with INVALID_BUFFER_SIZE and
\* returns no value.
PayloadBytesRoundTrip ==
  pc = "makeUint128FromPayload" =>
    IF Len(args.payload) = 16 THEN result = Ok(args.payload)
    ELSE ~result.ok /\ result = Err("INVALID_BUFFER_SIZE")

\* A 16-byte payload with different halves came back as it was.
PayloadCameBack ==
  pc = "makeUint128FromPayload" /\ args.payload = P0 /\ result = Ok(P0)

-----------------------------------------------------------------------------
(* Claims about the encoder's steps (specification Spec).                  *)

\* l is a run of at least three consecutive identifiers followed by one more
\* identifier of the same timestamp that is not the run's successor.
IsRunThenGap(l) ==
  /\ Len(l) >= 4
  /\ \A k \in 1..(Len(l) - 2) : l[k + 1] = Successor(l[k])
  /\ TimestampOf(l[Len(l)]) = TimestampOf(l[1])
  /\ Less(l[Len(l) - 1], l[Len(l)])
  /\ l[Len(l)] # Successor(l[Len(l) - 1])

\* C16: when the encoder emits a PayloadRange record, its lastValue for the
\* following identifier is the payload of the last identifier the range
\* covers, so a PayloadDelta that follows at the same timestamp carries the
\* difference from the end of the run and the decoder reconstructs that
\* identifier exactly (payloads 0, 1, 2, 3, 4 and then 1000 decode back
\* with last payload 1000).
RangeLeavesLastValue ==
  (collect /\ pc # "start" /\ IsRunThenGap(ids)) =>
    LET n    == Len(ids) - 1
        st   == encodeStep(ids, [i |-> 1, w |-> NewBuffer(0),
                                 timestamp |-> KSUID_timestamp(ids[1]),
                                 lastValue |-> uint128Payload(ids[1]).val,
                                 done |-> FALSE])
        recs == Records(content)
    IN  /\ st.i = n
        /\ Value(st.lastValue) = PayloadOf(ids[n])
        /\ Len(recs) = 3
        /\ recs[2].tag = PAYLOAD_RANGE
        /\ recs[3].tag = PAYLOAD_DELTA
        /\ recs[3].end = Len(content)
        /\ SumIs(PayloadOf(ids[n]), ZeroExtend(FieldOf(content, recs[3]), 16),
                 PayloadOf(ids[n + 1]))
        /\ pc = "done" => out = ids

\* C17: for every input list the buffer compress allocates, of
\* 10 * max(100, 21 + floor(n / 5)) bytes for n identifiers, is at least as
\* long as the records the encoder writes, so that no record byte is
\* written past its end or missing from the returned prefix.
BufferHoldsAllRecords ==
  Compressed =>
    LET n       == Len(ids)
        records == appendCompressed(21 * (n + 1), ids)   \* room for n Raw records
    IN  /\ Len(records) <= 10 * Max(100, 21 + (n \div 5))
        /\ content = records

-----------------------------------------------------------------------------
(* Claims about the varint utilities (specification SpecVarint).           *)

\* The least n >= 1 with v < 256^n, for v given as big-endian bytes.
LeastLength(v) ==
  LET nz == { i \in 1..Len(v) : v[i] # 0 }
  IN  IF nz = {} THEN 1
      ELSE Len(v) - (CHOOSE i \in nz : \A j \in nz : i <= j) + 1

\* The n low-order bytes of v.
LowOrder(v, n) == [i \in 1..n |-> v[Len(v) - n + i]]

\* C18: for every PayloadRange count c >= 1 the encoder computes the byte
\* length of the count as the least n in 1..8 with c < 256^n and writes
\* those n low-order bytes, so that the decoder reads back exactly c.
CountLengthIsLeast ==
  (pc = "varint64" /\ args.count >= 1) =>
    LET c == BytesOf(args.count, 8)
    IN  /\ result.length = LeastLength(c)
        /\ result.bytes = LowOrder(c, LeastLength(c))
        /\ result.back = Ok(args.count)

\* C19: for every 32-bit timestamp difference and every 128-bit payload
\* difference v the computed length is the least n >= 1 with v < 256^n (1
\* for zero, at most 4 and 16), exactly the n low-order bytes are written,
\* and zero-padding them to the full width gives v back.
DeltaLengthIsLeast ==
  /\ pc = "varint32" =>
       LET v == LowOrder(args.delta32, 4)
       IN  /\ result.length = LeastLength(v)
           /\ result.length \in 1..4
           /\ result.bytes = LowOrder(v, result.length)
           /\ ZeroExtend(result.bytes, 4) = v
           /\ result.back = Ok(args.delta32)
  /\ pc = "varint128" =>
       LET v == Value(args.delta128)
       IN  /\ result.length = LeastLength(v)
           /\ result.length \in 1..16
           /\ result.bytes = LowOrder(v, result.length)
           /\ ZeroExtend(result.bytes, 16) = v
           /\ result.back = Ok(args.delta128)

\* A 9-byte payload difference and, in another call, the zero timestamp
\* difference have been written and read back.
DeltaTrimmed ==
  \/ /\ pc = "varint128"
     /\ args.delta128 = Uint128(Zeros(8), Zeros(7) \o <<1>>)
     /\ result.length = 9
     /\ result.bytes = <<1>> \o Zeros(8)
  \/ /\ pc = "varint32"
     /\ args.delta32 = U32(0, 0, 0, 0)
     /\ result.length = 1
     /\ result.bytes = <<0>>

-----------------------------------------------------------------------------
(* Claims about the iterator's steps (specification SpecBuffer).           *)

\* The identifier with the iterator's timestamp and the payload one above
\* its lastValue (modulo 2^128).
NextInRun ==
  LowOrder(timestamp, 4)
    \o LowBytes(BigAdd(Value(lastValue), Zeros(15) \o <<1>>, 0), 16)

-----------------------------------------------------------------------------
(* Claims about the encoder's choice of records (specification Spec).      *)

\* The identifier one below id at the same timestamp; <<>> below payload 0.
Predecessor(id) ==
  LET p == BigSub(PayloadOf(id), Zeros(15) \o <<1>>, 0)
  IN  IF p.borrow # 0 THEN <<>> ELSE TimestampOf(id) \o p.bytes

\* The identifiers of S that follow the first of a run: their payload is one
\* above that of an identifier of S which has no predecessor in S.
RunSeconds(S) ==
  { x \in S : Predecessor(x) \in S /\ Predecessor(Predecessor(x)) \notin S }

\* The positions in recs of the records of one kind.
RecordsOfKind(recs, tag) == { k \in 1..Len(recs) : recs[k].tag = tag }

\* C21: the encoder emits a PayloadRange record only for an identifier whose
\* payload is lastValue+1 and which is followed by at least one more
\* identifier continuing the run at the same timestamp, so the count of
\* every emitted PayloadRange record is at least 2; an identifier whose
\* payload is lastValue+1 with no continuation is emitted as a PayloadDelta
\* record with delta 1.
RangeOnlyWithContinuation ==
  Compressed =>
    LET S      == Distinct(ids)
        recs   == Records(content)
        ranges == RecordsOfKind(recs, PAYLOAD_RANGE)
        ones   == { k \in RecordsOfKind(recs, PAYLOAD_DELTA) :
                      ZeroExtend(FieldOf(content, recs[k]), 16) = Zeros(15) \o <<1>> }
    IN  /\ \A k \in ranges :
             ZeroExtend(FieldOf(content, recs[k]), 8)
               \notin { Zeros(8), Zeros(7) \o <<1>> }
        /\ Cardinality(ranges)
             = Cardinality({ x \in RunSeconds(S) : Successor(x) \in S })
        /\ Cardinality(ones)
             = Cardinality({ x \in RunSeconds(S) : Successor(x) \notin S })

\* C22: for every non-empty input the encoded buffer begins with one Raw
\* record of 21 bytes, the tag byte 0 followed by the 20 bytes of the
\* smallest identifier, and no other Raw record occurs in the buffer; for a
\* single identifier X the buffer is exactly those 21 bytes.
RawRecordFirstAndOnly ==
  (Compressed /\ Len(ids) > 0) =>
    LET S     == Distinct(ids)
        first == CHOOSE x \in S : \A y \in S : ~Less(y, x)
    IN  /\ Len(content) >= 21
        /\ subarray(content, 0, 21) = <<RAW_KSUID>> \o first
        /\ RecordsOfKind(Records(content), RAW_KSUID) = {1}
        /\ Len(ids) = 1 => content = <<RAW_KSUID>> \o ids[1]

\* An input that does not begin with its smallest identifier was encoded
\* into more than one record.
RawThenOthers ==
  /\ Compressed
  /\ Len(Records(content)) > 1
  /\ \E k \in 1..Len(ids) : Less(ids[k], ids[1])

-----------------------------------------------------------------------------
(* Further claims about the iterator (specification SpecBuffer).           *)

\* What next() does on reading, at the iterator's current fields, a record
\* of the given kind whose one-byte field is 1.
ReadOne(kind) ==
  iterNext(<<BitOr(kind, 1), 1>>, [iter EXCEPT !.offset = 0])

\* C23: from any iterator state, reading a PayloadDelta record with delta 1
\* and reading a PayloadRange record with count 1 produce the same current
\* identifier and leave the same timestamp, lastValue and remaining-range
\* counter, which is 0, so that the rest of the buffer decodes identically.
SingleSuccessorEncodingsAgree ==
  (pc # "start" /\ seqlength <= 0) =>
    LET d == ReadOne(PAYLOAD_DELTA)
        r == ReadOne(PAYLOAD_RANGE)
    IN  /\ d.ret = r.ret
        /\ d.it.ksuid = r.it.ksuid
        /\ d.it.timestamp = r.it.timestamp
        /\ d.it.lastValue = r.it.lastValue
        /\ d.it.offset = r.it.offset
        /\ d.it.seqlength = r.it.seqlength
        /\ d.ret = "true" => d.it.seqlength = 0

\* C24: a next() call that throws leaves the iterator's offset, timestamp,
\* lastValue, remaining-range counter and current identifier exactly as they
\* were before the call.
FailedCallLeavesCursor ==
  [][ret' = "throw" =>
       UNCHANGED <<offset, timestamp, lastValue, seqlength, ksuid>>]_vars

\* C25: in every reachable iterator state, whatever the buffer holds, the
\* remaining-range counter seqlength is a non-negative integer.
SeqlengthNonNegative == seqlength \in Nat

-----------------------------------------------------------------------------
(* Further claims about compress followed by iteration (specification Spec). *)

\* C26: on every buffer produced by compress, each next() that reads a
\* record leaves offset at the first byte of the following record, offset
\* never decreases, and the next() that returns false finds offset equal to
\* the buffer's length with a remaining-range counter of 0.
RecordAlignment ==
  [][collect' =>
       /\ offset' >= offset
       /\ (pc = "iter" /\ seqlength <= 0 /\ ret' = "true") =>
            \E k \in 1..Len(Records(content)) :
              /\ Records(content)[k].pos = offset
              /\ Records(content)[k].end = offset'
       /\ ret' = "false" => (offset' = Len(content) /\ seqlength' = 0)]_vars

-----------------------------------------------------------------------------
(* Termination of iteration (specification FairSpecBuffer).                *)

\* C27: for every buffer, repeated next() calls reach a call that returns
\* false or throws, because each call that returns true either decreases
\* the remaining-range counter by one or increases offset by at least one.
IterationTerminates ==
  /\ [][ret' = "true" => (seqlength' = seqlength - 1 \/ offset' > offset)]_vars
  /\ <>(ret \in {"false", "throw"})

-----------------------------------------------------------------------------
(* Claims about sort.ts (specification SpecSort).                          *)

\* How often x occurs in the list l.
Occurrences(l, x) == Cardinality({ k \in 1..Len(l) : l[k] = x })

\* C28: for every array, also one with repeated identifiers or in
\* descending order, after sort(ids) returns isSorted(ids) is true, no
\* identifier is followed by a smaller one, and ids holds the same
\* identifiers as before, each as often (so it has the same length); and
\* isSorted is true of an array exactly when no identifier is followed by a
\* smaller one.
SortSortsInPlace ==
  /\ pc = "sort" =>
       /\ result.isSorted
       /\ \A k \in 1..(Len(result.ids) - 1) :
            ~Less(result.ids[k + 1], result.ids[k])
       /\ Len(result.ids) = Len(args.ids)
       /\ \A x \in Distinct(args.ids) \cup Distinct(result.ids) :
            Occurrences(result.ids, x) = Occurrences(args.ids, x)
  /\ pc = "isSorted" =>
       (result <=> \A k \in 1..(Len(args.ids) - 1) :
                     ~Less(args.ids[k + 1], args.ids[k]))

\* An array of four that holds an identifier twice and starts above its
\* last element has been sorted.
RepeatsSorted ==
  /\ pc = "sort"
  /\ Len(args.ids) = MaxArray
  /\ Cardinality(Distinct(args.ids)) < MaxArray
  /\ Less(args.ids[MaxArray], args.ids[1])
  /\ result.ids # args.ids

-----------------------------------------------------------------------------
(* Claims about KSUID.next and KSUID.prev (specification SpecKsuid).       *)

\* The timestamp t plus one, as five bytes.
TimestampPlusOne(t) == BigAdd(t, <<0, 0, 0, 1>>, 0)

\* C29: next() adds 1 to the payload and keeps the timestamp, except that an
\* all-0xff payload becomes zero and the timestamp increases by 1; prev()
\* subtracts 1 from the payload and keeps the timestamp, except that a zero
\* payload becomes all 0xff and the timestamp decreases by 1, prev() of the
\* nil KSUID being the maximum KSUID; and k.next().prev() is k.
NextPrevStepByOne ==
  LET k == args.k
  IN  /\ pc = "next" =>
           /\ result.ok
           /\ IF PayloadOf(k) = Ones(16)
              THEN /\ PayloadOf(result.val) = Zeros(16)
                   /\ <<0>> \o TimestampOf(result.val)
                        = TimestampPlusOne(TimestampOf(k))
              ELSE result.val = Successor(k)
      /\ pc = "prev" =>
           /\ result.ok
           /\ IF PayloadOf(k) # Zeros(16) THEN result.val = Predecessor(k)
              ELSE IF k = Zeros(20) THEN result.val = Ones(20)
              ELSE /\ PayloadOf(result.val) = Ones(16)
                   /\ TimestampPlusOne(TimestampOf(result.val))
                        = <<0>> \o TimestampOf(k)
      /\ pc = "next.prev" => (result.ok /\ result.val = k)

\* C30: next() of the maximum KSUID (timestamp 0xffffffff, payload all 0xff)
\* does not fail: the incremented timestamp is written as 0x00000000 and the
\* result is the nil KSUID.
NextOfMaxWraps ==
  (pc = "next" /\ args.k = Ones(20)) => result = Ok(Zeros(20))

=============================================================================
